---- MODULE Spec2Model ----
(***************************************************************************)
(* Error taxonomy, cause-chain rendering, stack walking, severity and      *)
(* description of errors, and the deprecation warning emitter of           *)
(* reframe/core/exceptions.py and reframe/core/warnings.py.                *)
(*                                                                         *)
(* Python values are represented as follows.                               *)
(*   - a str is a TLA+ string; None is <<>> and a present optional value v *)
(*     is <<v>>;                                                           *)
(*   - an exception object is a record kind/message/cause (+ the fields    *)
(*     its constructor sets) stored in heap; cause is the heap index of    *)
(*     __cause__, 0 for None;                                              *)
(*   - a file path is the sequence of its components;                      *)
(*   - the outcome of a call is a record [kind |-> "return", value |-> v]  *)
(*     or [kind |-> "raise", value |-> <exception class name>].            *)
(***************************************************************************)
EXTENDS Integers, Sequences, FiniteSets, TLC

VARIABLES heap,     \* the exception objects raised so far; the last is exc_value
          pc,       \* "idle", "str" (a __str__ frame runs), "ret", "done"
          op,       \* the reporting operation that was called
          tb,       \* the traceback argument of that operation
          stack,    \* the active __str__ frames, innermost last
          retval,   \* the string a finished str() call hands to its caller
          result,   \* the outcome of the operation
          callers   \* the call stack seen by user_deprecation_warning

vars == <<heap, pc, op, tb, stack, retval, result, callers>>

----------------------------------------------------------------------------
(* Bounds *)

\* longest cause chain that is built
MaxChain == 3
\* bound on (length of the cause chain + number of frames of the traceback)
MaxTotal == 4
\* number of frames below user_deprecation_warning on the call stack
MaxStack == 3
\* stands for sys.getrecursionlimit(): larger than any acyclic chain built
RecursionLimit == MaxChain + 2

----------------------------------------------------------------------------
(* Python values *)

None == << >>
Some(v) == <<v>>

Return(v) == [kind |-> "return", value |-> v]
Raised(cls) == [kind |-> "raise", value |-> cls]

RECURSIVE join(_, _)
\* sep.join(lines)
join(sep, lines) ==
  IF lines = << >> THEN ""
  ELSE IF Len(lines) = 1 THEN lines[1]
  ELSE lines[1] \o sep \o join(sep, Tail(lines))

\* s.startswith(prefix)
startswith(s, prefix) ==
  Len(s) >= Len(prefix) /\ SubSeq(s, 1, Len(prefix)) = prefix

\* reversed(seq)
reversed(seq) == [i \in 1..Len(seq) |-> seq[Len(seq) + 1 - i]]

----------------------------------------------------------------------------
(* Error taxonomy: the direct bases of every class *)

Bases ==
  [ BaseException          |-> {},
    Exception              |-> {"BaseException"},
    KeyboardInterrupt      |-> {"BaseException"},
    SystemExit             |-> {"BaseException"},
    TypeError              |-> {"Exception"},
    ValueError             |-> {"Exception"},
    UnicodeError           |-> {"ValueError"},
    RuntimeError           |-> {"Exception"},
    OSError                |-> {"Exception"},
    ConnectionError        |-> {"OSError"},
    BrokenPipeError        |-> {"ConnectionError"},
    FileExistsError        |-> {"OSError"},
    FileNotFoundError      |-> {"OSError"},
    IsADirectoryError      |-> {"OSError"},
    NotADirectoryError     |-> {"OSError"},
    PermissionError        |-> {"OSError"},
    TimeoutError           |-> {"OSError"},
    ReframeBaseError       |-> {"BaseException"},
    ReframeError           |-> {"ReframeBaseError", "Exception"},
    ReframeFatalError      |-> {"ReframeBaseError"},
    ReframeSyntaxError     |-> {"ReframeError"},
    RegressionTestLoadError |-> {"ReframeError"},
    NameConflictError      |-> {"RegressionTestLoadError"},
    TaskExit               |-> {"ReframeError"},
    TaskDependencyError    |-> {"ReframeError"},
    AbortTaskError         |-> {"ReframeError"},
    ConfigError            |-> {"ReframeError"},
    LoggingError           |-> {"ReframeError"},
    EnvironError           |-> {"ReframeError"},
    SanityError            |-> {"ReframeError"},
    PerformanceError       |-> {"ReframeError"},
    PipelineError          |-> {"ReframeError"},
    ReframeForceExitError  |-> {"ReframeError"},
    StatisticsError        |-> {"ReframeError"},
    BuildSystemError       |-> {"ReframeError"},
    ContainerError         |-> {"ReframeError"},
    BuildError             |-> {"ReframeError"},
    SpawnedProcessError    |-> {"ReframeError"},
    SpawnedProcessTimeout  |-> {"SpawnedProcessError"},
    JobSchedulerError      |-> {"ReframeError"},
    JobError               |-> {"ReframeError"},
    JobBlockedError        |-> {"JobError"},
    JobNotStartedError     |-> {"JobError"},
    DependencyError        |-> {"ReframeError"} ]

Kinds == DOMAIN Bases

RECURSIVE issubclass(_, _)
\* issubclass(cls, base)
issubclass(cls, base) ==
  \/ cls = base
  \/ \E b \in Bases[cls] : issubclass(b, base)

\* isinstance(exc_value, classes), for a tuple of classes; exc_value = 0 is None
isinstance(exc_value, classes) ==
  /\ exc_value # 0
  /\ \E c \in classes : issubclass(heap[exc_value].kind, c)

\* type(obj).__name__
type_name(obj) == IF obj = 0 THEN "NoneType" ELSE heap[obj].kind

----------------------------------------------------------------------------
(* Constructors *)

\* ReframeBaseError.__init__(self, *args)
ReframeBaseError_init(kind, args) ==
  [kind |-> kind,
   message |-> IF args # << >> THEN Some(args[1]) ELSE None,
   cause |-> 0]

\* BaseException(*args) of a builtin class; str() of it is '' without
\* arguments and str(args[0]) with one
BaseException_init(kind, args) ==
  [kind |-> kind,
   message |-> IF args # << >> THEN Some(args[1]) ELSE None,
   cause |-> 0]

\* BuildError.__init__(self, stdout, stderr)
BuildError_init(kind, stdout, stderr) ==
  [ReframeBaseError_init(kind, << >>) EXCEPT
     !.message = Some("standard error can be found in `" \o stderr \o "', "
                      \o "standard output can be found in `" \o stdout \o "'")]

\* the command of a spawned process: args is <<"str", s>> for a str and
\* <<"list", w1, ..., wn>> for a list of words
SpawnedProcessError_command(args) ==
  IF args[1] = "str" THEN args[2] ELSE join(" ", Tail(args))

\* str(exitcode) as the f-string formats it
format_exitcode(exitcode) ==
  IF exitcode = None THEN "None" ELSE ToString(exitcode[1])

SpawnedProcessError_lines_nocheck(header, stdout, stderr) ==
  <<header, "=== STDOUT ===", stdout, "=== STDERR ===", stderr>>

\* the lines of the message: header, STDOUT section, STDERR section
SpawnedProcessError_lines(header, stdout, stderr) ==
  LET l1 == <<header>>
      l2 == Append(l1, "=== STDOUT ===")
      l3 == IF stdout # "" THEN Append(l2, stdout) ELSE l2
      l4 == Append(l3, "=== STDERR ===")
      l5 == IF stderr # "" THEN Append(l4, stderr) ELSE l4
  IN l5

\* SpawnedProcessError.__init__(self, args, stdout, stderr, exitcode)
SpawnedProcessError_init(kind, args, stdout, stderr, exitcode) ==
  LET command == SpawnedProcessError_command(args)
      header  == "command '" \o command \o "' failed with exit code "
                 \o format_exitcode(exitcode) \o ":"
  IN [kind |-> kind,
      message |-> Some(join("\n", SpawnedProcessError_lines(header, stdout, stderr))),
      cause |-> 0,
      command |-> command, stdout |-> stdout, stderr |-> stderr,
      exitcode |-> exitcode]

\* SpawnedProcessTimeout.__init__(self, args, stdout, stderr, timeout)
SpawnedProcessTimeout_init(kind, args, stdout, stderr, timeout) ==
  LET base   == SpawnedProcessError_init(kind, args, stdout, stderr, None)
      header == "command '" \o base.command \o "' timed out after "
                \o ToString(timeout) \o "s:"
  IN [kind |-> kind,
      message |-> Some(join("\n", SpawnedProcessError_lines(header, stdout, stderr))),
      cause |-> 0,
      command |-> base.command, stdout |-> stdout, stderr |-> stderr,
      exitcode |-> None, timeout |-> timeout]

\* JobError.__init__(self, msg=None, jobid=None)
JobError_init(kind, msg, jobid) ==
  LET head    == "[jobid=" \o (IF jobid = None THEN "None" ELSE ToString(jobid[1])) \o "]"
      message == IF msg # None /\ msg[1] # "" THEN head \o " " \o msg[1] ELSE head
  IN [kind |-> kind, message |-> Some(message), cause |-> 0, jobid |-> jobid]

----------------------------------------------------------------------------
(* The arguments errors are constructed with *)

Messages == {"", "m"}
GenericArgs == {<< >>} \cup {<<m>> : m \in Messages}
CommandArgs == {<<"str", "ls -l">>, <<"list", "ls", "-l">>}
Stdouts == {"", "out"}
Stderrs == {"", "not found"}
ExitCodes == {1, 2}
Timeouts == {10}
JobIds == {None, Some(42)}
JobMsgs == {None} \cup {Some(m) : m \in Messages}

JobKinds == {"JobError", "JobBlockedError", "JobNotStartedError"}
GenericKinds ==
  Kinds \ (JobKinds \cup {"BuildError", "SpawnedProcessError", "SpawnedProcessTimeout"})

\* every exception object a raise statement can create
NewErrors ==
  {IF issubclass(k, "ReframeBaseError") THEN ReframeBaseError_init(k, a)
                                        ELSE BaseException_init(k, a) :
      k \in GenericKinds, a \in GenericArgs}
  \cup {BuildError_init("BuildError", "out.txt", "err.txt")}
  \cup {SpawnedProcessError_init("SpawnedProcessError", a, o, e, Some(x)) :
          a \in CommandArgs, o \in Stdouts, e \in Stderrs, x \in ExitCodes}
  \cup {SpawnedProcessTimeout_init("SpawnedProcessTimeout", a, o, e, t) :
          a \in CommandArgs, o \in Stdouts, e \in Stderrs, t \in Timeouts}
  \cup {JobError_init(k, m, j) : k \in JobKinds, m \in JobMsgs, j \in JobIds}

\* the kinds of the errors that take part in chains of two and more errors
ChainKinds == {"ReframeError", "ValueError"}
WrapperKinds == ChainKinds \cup {"AbortTaskError"}

----------------------------------------------------------------------------
(* utility.decamelize, as used by what *)

\* the words of a class name, split where a lower case letter is followed
\* by an upper case one, in lower case
CamelWords ==
  [ BaseException           |-> <<"base", "exception">>,
    Exception               |-> <<"exception">>,
    KeyboardInterrupt       |-> <<"keyboard", "interrupt">>,
    SystemExit              |-> <<"system", "exit">>,
    TypeError               |-> <<"type", "error">>,
    ValueError              |-> <<"value", "error">>,
    UnicodeError            |-> <<"unicode", "error">>,
    RuntimeError            |-> <<"runtime", "error">>,
    OSError                 |-> <<"oserror">>,
    ConnectionError         |-> <<"connection", "error">>,
    BrokenPipeError         |-> <<"broken", "pipe", "error">>,
    FileExistsError         |-> <<"file", "exists", "error">>,
    FileNotFoundError       |-> <<"file", "not", "found", "error">>,
    IsADirectoryError       |-> <<"is", "adirectory", "error">>,
    NotADirectoryError      |-> <<"not", "adirectory", "error">>,
    PermissionError         |-> <<"permission", "error">>,
    TimeoutError            |-> <<"timeout", "error">>,
    ReframeBaseError        |-> <<"reframe", "base", "error">>,
    ReframeError            |-> <<"reframe", "error">>,
    ReframeFatalError       |-> <<"reframe", "fatal", "error">>,
    ReframeSyntaxError      |-> <<"reframe", "syntax", "error">>,
    RegressionTestLoadError |-> <<"regression", "test", "load", "error">>,
    NameConflictError       |-> <<"name", "conflict", "error">>,
    TaskExit                |-> <<"task", "exit">>,
    TaskDependencyError     |-> <<"task", "dependency", "error">>,
    AbortTaskError          |-> <<"abort", "task", "error">>,
    ConfigError             |-> <<"config", "error">>,
    LoggingError            |-> <<"logging", "error">>,
    EnvironError            |-> <<"environ", "error">>,
    SanityError             |-> <<"sanity", "error">>,
    PerformanceError        |-> <<"performance", "error">>,
    PipelineError           |-> <<"pipeline", "error">>,
    ReframeForceExitError   |-> <<"reframe", "force", "exit", "error">>,
    StatisticsError         |-> <<"statistics", "error">>,
    BuildSystemError        |-> <<"build", "system", "error">>,
    ContainerError          |-> <<"container", "error">>,
    BuildError              |-> <<"build", "error">>,
    SpawnedProcessError     |-> <<"spawned", "process", "error">>,
    SpawnedProcessTimeout   |-> <<"spawned", "process", "timeout">>,
    JobSchedulerError       |-> <<"job", "scheduler", "error">>,
    JobError                |-> <<"job", "error">>,
    JobBlockedError         |-> <<"job", "blocked", "error">>,
    JobNotStartedError      |-> <<"job", "not", "started", "error">>,
    DependencyError         |-> <<"dependency", "error">> ]

\* utility.decamelize(s, delim)
decamelize(s, delim) == join(delim, CamelWords[s])

----------------------------------------------------------------------------
(* Paths and tracebacks *)

\* sys.path[0]: the directory that holds the framework's reframe package
sys_path_0 == <<"opt", "rfm">>
\* os.getcwd()
getcwd == <<"home", "user">>

RECURSIVE commonprefix_len(_, _)
commonprefix_len(p, q) ==
  IF p # << >> /\ q # << >> /\ p[1] = q[1]
  THEN 1 + commonprefix_len(Tail(p), Tail(q))
  ELSE 0

\* os.path.relpath(path, start), as the sequence of its components
relpath(path, start) ==
  LET i    == commonprefix_len(path, start)
      ups  == [k \in 1..(Len(start) - i) |-> ".."]
      rest == SubSeq(path, i + 1, Len(path))
  IN IF ups \o rest = << >> THEN <<".">> ELSE ups \o rest

\* the files frames run in: a framework file, a caller's file below
\* sys.path[0] whose directory name starts with 'reframe', and a caller's
\* file elsewhere that lies in a directory named 'reframe'
Filenames ==
  { <<"opt", "rfm", "reframe", "core", "pipeline.py">>,
    <<"opt", "rfm", "reframe_checks", "hello.py">>,
    <<"home", "user", "reframe", "check.py">> }

\* inspect.FrameInfo of the i-th frame of a traceback
FrameInfo(filename, i) ==
  [filename |-> filename, lineno |-> 10 * i, code_context |-> <<"    x = f()\n">>]

NoTraceback == [istraceback |-> FALSE, frames |-> << >>]

\* the tracebacks of at most n frames; frames is what inspect.getinnerframes
\* returns, from the frame that caught the error to the frame that raised it
Tracebacks(n) ==
  UNION { { [istraceback |-> TRUE,
             frames |-> [i \in 1..k |-> FrameInfo(fs[i], i)]] :
              fs \in [1..k -> Filenames] } : k \in 1..n }

\* inspect.istraceback(tb)
istraceback(t) == t.istraceback
\* inspect.getinnerframes(tb)
getinnerframes(t) == t.frames

----------------------------------------------------------------------------
(* Stack walker, severity and description *)

user_frame_outermost(exc_type, exc_value, t) ==
  IF ~istraceback(t) THEN Raised("ValueError")
  ELSE LET frames == getinnerframes(t)
           hits   == {i \in 1..Len(frames) :
                        relpath(frames[i].filename, sys_path_0)[1] # "reframe"}
       IN IF hits = {} THEN Return(None)
          ELSE Return(Some(frames[CHOOSE i \in hits : \A j \in hits : i <= j]))

\* user_frame(exc_type, exc_value, tb)
user_frame(exc_type, exc_value, t) ==
  IF ~istraceback(t) THEN Raised("ValueError")
  ELSE LET frames == reversed(getinnerframes(t))
           hits   == {i \in 1..Len(frames) :
                        relpath(frames[i].filename, sys_path_0)[1] # "reframe"}
       IN IF hits = {} THEN Return(None)
          ELSE Return(Some(frames[CHOOSE i \in hits : \A j \in hits : i <= j]))

soft_errors ==
  {"ReframeError", "ConnectionError", "FileExistsError", "FileNotFoundError",
   "IsADirectoryError", "KeyboardInterrupt", "NotADirectoryError",
   "PermissionError", "TimeoutError"}

is_severe_frame_first(exc_type, exc_value, t) ==
  LET type_error  == isinstance(exc_value, {"TypeError"})
      value_error == isinstance(exc_value, {"ValueError"})
      frame       == user_frame(exc_type, exc_value, t)
  IN IF frame.kind = "raise" THEN frame
     ELSE IF isinstance(exc_value, soft_errors) THEN Return(FALSE)
     ELSE IF (type_error \/ value_error) /\ frame.value # None THEN Return(FALSE)
     ELSE Return(TRUE)

is_severe_type_only(exc_type, exc_value, t) ==
  IF isinstance(exc_value, soft_errors) THEN Return(FALSE)
  ELSE LET type_error == isinstance(exc_value, {"TypeError"})
           frame      == user_frame(exc_type, exc_value, t)
       IN IF frame.kind = "raise" THEN frame
          ELSE IF type_error /\ frame.value # None THEN Return(FALSE)
          ELSE Return(TRUE)

\* is_severe(exc_type, exc_value, tb)
is_severe(exc_type, exc_value, t) ==
  IF isinstance(exc_value, soft_errors) THEN Return(FALSE)
  ELSE LET type_error  == isinstance(exc_value, {"TypeError"})
           value_error == isinstance(exc_value, {"ValueError"})
           frame       == user_frame(exc_type, exc_value, t)
       IN IF frame.kind = "raise" THEN frame
          ELSE IF (type_error \/ value_error) /\ frame.value # None
               THEN Return(FALSE)
          ELSE Return(TRUE)

\* what evaluates str(exc_value) in its last two branches
what_evaluates_str(exc_type, exc_value, t) ==
  /\ exc_type # None
  /\ user_frame(exc_type, exc_value, t).kind = "return"
  /\ ~isinstance(exc_value, {"KeyboardInterrupt"})
  /\ ~isinstance(exc_value, {"AbortTaskError"})

what_always_suffix(exc_type, exc_value, t, str_exc_value) ==
  IF exc_type = None THEN Return("")
  ELSE
    LET reason == decamelize(exc_type[1], " ")
        frame  == user_frame(exc_type, exc_value, t)
    IN IF frame.kind = "raise" THEN frame
       ELSE
         LET user_type_error  == isinstance(exc_value, {"TypeError"})
                                 /\ frame.value # None
             user_value_error == isinstance(exc_value, {"ValueError"})
                                 /\ frame.value # None
         IN IF isinstance(exc_value, {"KeyboardInterrupt"})
            THEN Return("cancelled by user")
            ELSE IF isinstance(exc_value, {"AbortTaskError"})
            THEN Return("aborted due to " \o type_name(heap[exc_value].cause))
            ELSE IF user_type_error \/ user_value_error
            THEN LET f      == frame.value[1]
                     rel    == join("/", relpath(f.filename, getcwd))
                     source == join("", f.code_context)
                 IN Return(reason \o ": " \o rel \o ":" \o ToString(f.lineno)
                           \o ": " \o str_exc_value \o "\n" \o source)
            ELSE Return(reason \o ": " \o str_exc_value)

what_interrupt_located(exc_type, exc_value, t, str_exc_value) ==
  IF exc_type = None THEN Return("")
  ELSE
    LET reason == decamelize(exc_type[1], " ")
        frame  == user_frame(exc_type, exc_value, t)
    IN IF frame.kind = "raise" THEN frame
       ELSE
         LET user_type_error  == isinstance(exc_value, {"TypeError"})
                                 /\ frame.value # None
             user_value_error == isinstance(exc_value, {"ValueError"})
                                 /\ frame.value # None
         IN IF isinstance(exc_value, {"KeyboardInterrupt"})
            THEN IF frame.value = None THEN Return("cancelled by user")
                 ELSE Return("cancelled by user: "
                             \o join("/", relpath(frame.value[1].filename, getcwd)))
            ELSE IF isinstance(exc_value, {"AbortTaskError"})
            THEN Return("aborted due to " \o type_name(heap[exc_value].cause))
            ELSE IF user_type_error \/ user_value_error
            THEN LET f      == frame.value[1]
                     rel    == join("/", relpath(f.filename, getcwd))
                     source == join("", f.code_context)
                 IN Return(reason \o ": " \o rel \o ":" \o ToString(f.lineno)
                           \o ": " \o str_exc_value \o "\n" \o source)
            ELSE IF str_exc_value # ""
            THEN Return(reason \o ": " \o str_exc_value)
            ELSE Return(reason)

\* what(exc_type, exc_value, tb); str_exc_value is the value of
\* str(exc_value) where the code evaluates it
what(exc_type, exc_value, t, str_exc_value) ==
  IF exc_type = None THEN Return("")
  ELSE
    LET reason == decamelize(exc_type[1], " ")
        frame  == user_frame(exc_type, exc_value, t)
    IN IF frame.kind = "raise" THEN frame
       ELSE
         LET user_type_error  == isinstance(exc_value, {"TypeError"})
                                 /\ frame.value # None
             user_value_error == isinstance(exc_value, {"ValueError"})
                                 /\ frame.value # None
         IN IF isinstance(exc_value, {"KeyboardInterrupt"})
            THEN Return("cancelled by user")
            ELSE IF isinstance(exc_value, {"AbortTaskError"})
            THEN Return("aborted due to " \o type_name(heap[exc_value].cause))
            ELSE IF user_type_error \/ user_value_error
            THEN LET f      == frame.value[1]
                     rel    == join("/", relpath(f.filename, getcwd))
                     source == join("", f.code_context)
                 IN Return(reason \o ": " \o rel \o ":" \o ToString(f.lineno)
                           \o ": " \o str_exc_value \o "\n" \o source)
            ELSE IF str_exc_value # ""
            THEN Return(reason \o ": " \o str_exc_value)
            ELSE Return(reason)

----------------------------------------------------------------------------
(* Deprecation warnings *)

\* the modules of the frames below user_deprecation_warning: a framework
\* module, a caller's module whose name starts with 'reframe', a script,
\* and a frame whose module inspect.getmodule cannot tell (None)
Modules ==
  {Some("reframe.core.pipeline"), Some("reframe_checks.hello"),
   Some("__main__"), None}

\* the modules that define user_deprecation_warning
OwnModules == {"reframe.core.warnings", "reframe.core.exceptions"}

RECURSIVE unroll(_, _)
\* the loop over inspect.stack(): frames is the rest of the stack
unroll(frames, stack_level) ==
  IF frames = << >> THEN stack_level
  ELSE IF frames[1] = None \/ ~startswith(frames[1][1], "reframe")
       THEN stack_level
  ELSE unroll(Tail(frames), stack_level + 1)

\* the stacklevel user_deprecation_warning passes to warnings.warn;
\* inspect_stack lists the modules of the stack from the function's own
\* frame outwards
user_deprecation_warning(inspect_stack) == unroll(inspect_stack, 1)

\* warnings.warn(..., stacklevel=n) attributes the warning to the n-th frame
\* counted from the caller of warn; 0 stands for the fallback location used
\* when the stack has fewer frames
warn_frame(inspect_stack, stacklevel) ==
  IF stacklevel <= Len(inspect_stack) THEN stacklevel ELSE 0

----------------------------------------------------------------------------
(* Rendering: ReframeBaseError.__str__ and the builtin str() *)

message_or_None(obj) ==
  IF obj.message = None THEN "None" ELSE obj.message[1]

\* self._message or ''
message_or_empty(obj) ==
  IF obj.message = None THEN "" ELSE obj.message[1]

\* BaseException.__str__ of a builtin error: no cause is followed
BaseException_str(obj) ==
  IF obj.message = None THEN "" ELSE obj.message[1]

\* ret += ': ' + str(self.__cause__)
append_cause(ret, str_cause) == ret \o ": " \o str_cause

\* exc_value and exc_type as sys.exc_info() gives them: the last error
\* raised, or (None, None, None)
exc_value == Len(heap)
exc_type == IF heap = << >> THEN None ELSE Some(heap[Len(heap)].kind)

Top == stack[Len(stack)]
Pop == SubSeq(stack, 1, Len(stack) - 1)

\* str(heap[i]) is called: a taxonomy error gets a __str__ frame, a builtin
\* error returns its own text at once
enter_str(i) ==
  IF issubclass(heap[i].kind, "ReframeBaseError")
  THEN /\ stack' = Append(stack, [self |-> i, ret |-> message_or_empty(heap[i])])
       /\ pc' = "str"
       /\ UNCHANGED retval
  ELSE /\ retval' = BaseException_str(heap[i])
       /\ pc' = "ret"
       /\ UNCHANGED stack

----------------------------------------------------------------------------
(* Actions *)

Init ==
  /\ heap = << >>
  /\ pc = "idle"
  /\ op = "none"
  /\ tb = NoTraceback
  /\ stack = << >>
  /\ retval = ""
  /\ result = [kind |-> "none"]
  /\ callers = << >>

\* raise E(...)
Raise ==
  /\ pc = "idle" /\ heap = << >>
  /\ \E e \in NewErrors : heap' = <<e>>
  /\ UNCHANGED <<pc, op, tb, stack, retval, result, callers>>

\* except ... as e: raise E(...) from e
RaiseFrom ==
  /\ pc = "idle" /\ heap # << >> /\ Len(heap) < MaxChain
  /\ heap[Len(heap)].kind \in ChainKinds
  /\ \E e \in NewErrors :
       /\ e.kind \in WrapperKinds
       /\ heap' = Append(heap, [e EXCEPT !.cause = Len(heap)])
  /\ UNCHANGED <<pc, op, tb, stack, retval, result, callers>>

\* the first error of the chain is given one of the chain's errors as cause
\* (raise e from e, or an assignment to __cause__)
SetCause ==
  /\ pc = "idle" /\ heap # << >> /\ heap[1].cause = 0
  /\ \E j \in 1..Len(heap) : heap' = [heap EXCEPT ![1].cause = j]
  /\ UNCHANGED <<pc, op, tb, stack, retval, result, callers>>

\* the traceback arguments an operation is called with
TracebackArgs ==
  IF heap = << >> THEN {NoTraceback}
  ELSE {NoTraceback} \cup Tracebacks(MaxTotal - Len(heap))

\* str(exc_value)
Render ==
  /\ pc = "idle" /\ heap # << >>
  /\ op' = "str"
  /\ enter_str(exc_value)
  /\ UNCHANGED <<heap, tb, result, callers>>

\* __str__, line 58: no cause, return ret
StrNoCause ==
  /\ pc = "str" /\ heap[Top.self].cause = 0
  /\ retval' = Top.ret
  /\ stack' = Pop
  /\ pc' = "ret"
  /\ UNCHANGED <<heap, op, tb, result, callers>>

\* __str__, line 59: str(self.__cause__) is called
StrCallCause ==
  /\ pc = "str" /\ heap[Top.self].cause # 0
  /\ \/ Len(stack) < RecursionLimit
     \/ ~issubclass(heap[heap[Top.self].cause].kind, "ReframeBaseError")
  /\ enter_str(heap[Top.self].cause)
  /\ UNCHANGED <<heap, op, tb, result, callers>>

StrRecursionSwallowed ==
  /\ pc = "str" /\ heap[Top.self].cause # 0
  /\ Len(stack) >= RecursionLimit
  /\ issubclass(heap[heap[Top.self].cause].kind, "ReframeBaseError")
  /\ retval' = Top.ret
  /\ stack' = Pop
  /\ pc' = "ret"
  /\ UNCHANGED <<heap, op, tb, result, callers>>

\* __str__, line 59: the call exceeds the interpreter's recursion limit and
\* RecursionError propagates out of every frame
StrRecursionError ==
  /\ pc = "str" /\ heap[Top.self].cause # 0
  /\ Len(stack) >= RecursionLimit
  /\ issubclass(heap[heap[Top.self].cause].kind, "ReframeBaseError")
  /\ stack' = << >>
  /\ result' = Raised("RecursionError")
  /\ pc' = "done"
  /\ UNCHANGED <<heap, op, tb, retval, callers>>

\* __str__, lines 59-61: the cause's text is appended and returned
StrResume ==
  /\ pc = "ret" /\ stack # << >>
  /\ retval' = append_cause(Top.ret, retval)
  /\ stack' = Pop
  /\ UNCHANGED <<heap, pc, op, tb, result, callers>>

\* str(exc_value) returns to the caller
StrDone ==
  /\ pc = "ret" /\ stack = << >> /\ op = "str"
  /\ result' = Return(retval)
  /\ pc' = "done"
  /\ UNCHANGED <<heap, op, tb, stack, retval, callers>>

\* user_frame(exc_type, exc_value, tb)
UserFrame ==
  /\ pc = "idle"
  /\ \E t \in TracebackArgs :
       /\ tb' = t
       /\ result' = user_frame(exc_type, exc_value, t)
  /\ op' = "user_frame"
  /\ pc' = "done"
  /\ UNCHANGED <<heap, stack, retval, callers>>

\* is_severe(exc_type, exc_value, tb)
IsSevere ==
  /\ pc = "idle"
  /\ \E t \in TracebackArgs :
       /\ tb' = t
       /\ result' = is_severe(exc_type, exc_value, t)
  /\ op' = "is_severe"
  /\ pc' = "done"
  /\ UNCHANGED <<heap, stack, retval, callers>>

\* what(exc_type, exc_value, tb) up to the evaluation of str(exc_value)
WhatCall ==
  /\ pc = "idle"
  /\ op' = "what"
  /\ \E t \in TracebackArgs :
       /\ tb' = t
       /\ IF what_evaluates_str(exc_type, exc_value, t)
          THEN /\ enter_str(exc_value)
               /\ UNCHANGED result
          ELSE /\ result' = what(exc_type, exc_value, t, "")
               /\ pc' = "done"
               /\ UNCHANGED <<stack, retval>>
  /\ UNCHANGED <<heap, callers>>

\* what, lines 342-350, once str(exc_value) is known
WhatResume ==
  /\ pc = "ret" /\ stack = << >> /\ op = "what"
  /\ result' = what(exc_type, exc_value, tb, retval)
  /\ pc' = "done"
  /\ UNCHANGED <<heap, op, tb, stack, retval, callers>>

\* user_deprecation_warning(message), called below the frames cs
UserDeprecationWarning ==
  /\ pc = "idle" /\ heap = << >>
  /\ \E own \in OwnModules, k \in 1..MaxStack :
       \E cs \in [1..k -> Modules] :
          /\ callers' = <<Some(own)>> \o cs
          /\ result' = Return(user_deprecation_warning(<<Some(own)>> \o cs))
  /\ op' = "user_deprecation_warning"
  /\ pc' = "done"
  /\ UNCHANGED <<heap, tb, stack, retval>>

Next ==
  \/ Raise
  \/ RaiseFrom
  \/ SetCause
  \/ Render
  \/ StrNoCause
  \/ StrCallCause
  \/ StrRecursionError
  \/ StrResume
  \/ StrDone
  \/ UserFrame
  \/ IsSevere
  \/ WhatCall
  \/ WhatResume
  \/ UserDeprecationWarning

Spec == Init /\ [][Next]_vars

\* raise E(...) of one of the kinds that chains are built of
RaiseChainError ==
  /\ pc = "idle" /\ heap = << >>
  /\ \E e \in NewErrors :
       /\ e.kind \in WrapperKinds
       /\ heap' = <<e>>
  /\ UNCHANGED <<pc, op, tb, stack, retval, result, callers>>

\* the steps of a str() call that has been started
Running ==
  StrNoCause \/ StrCallCause \/ StrRecursionError \/ StrResume \/ StrDone

\* building a chain of errors and rendering it
RenderNext ==
  \/ RaiseChainError
  \/ RaiseFrom
  \/ SetCause
  \/ Render
  \/ StrNoCause
  \/ StrCallCause
  \/ StrRecursionError
  \/ StrResume
  \/ StrDone

\* the interpreter keeps running a call that has been started
RenderSpec == Init /\ [][RenderNext]_vars /\ WF_vars(Running)

----------------------------------------------------------------------------
(* Vocabulary of the properties, stated on the data and not on the code's  *)
(* own operators                                                           *)

Done(o) == pc = "done" /\ op = o
Returned == result.kind = "return"
Kind == heap[Len(heap)].kind

IsTaxonomy(i) == issubclass(heap[i].kind, "ReframeBaseError")
OwnText(i) == IF heap[i].message = None THEN "" ELSE heap[i].message[1]

RECURSIVE LoopsFrom(_, _)
\* following the causes of taxonomy errors from i for n steps never ends
LoopsFrom(i, n) ==
  IF n = 0 THEN TRUE
  ELSE IF i = 0 THEN FALSE
  ELSE IF ~IsTaxonomy(i) THEN FALSE
  ELSE LoopsFrom(heap[i].cause, n - 1)

\* the cause chain of exc_value leads back into itself
CauseLoop == heap # << >> /\ LoopsFrom(exc_value, Len(heap) + 1)

RECURSIVE ChainTexts(_, _)
\* the texts of the errors of the chain from i: the messages of the taxonomy
\* errors, ended by the text of the first builtin error if there is one
ChainTexts(i, n) ==
  IF i = 0 \/ n = 0 THEN << >>
  ELSE IF ~IsTaxonomy(i) THEN <<OwnText(i)>>
  ELSE <<OwnText(i)>> \o ChainTexts(heap[i].cause, n - 1)

\* the text the chain of exc_value is documented to render as
Rendering == join(": ", ChainTexts(exc_value, Len(heap)))

SoftKinds == {k \in Kinds : issubclass(k, "ReframeError")}
RecoverableKinds ==
  {k \in Kinds : \E c \in {"ConnectionError", "FileExistsError",
                           "FileNotFoundError", "IsADirectoryError",
                           "KeyboardInterrupt", "NotADirectoryError",
                           "PermissionError", "TimeoutError"} : issubclass(k, c)}
TypeValueKinds ==
  {k \in Kinds : issubclass(k, "TypeError") \/ issubclass(k, "ValueError")}

\* the file lies in the reframe directory of the framework
InFrameworkDir(path) ==
  /\ Len(path) > Len(sys_path_0) + 1
  /\ SubSeq(path, 1, Len(sys_path_0) + 1) = sys_path_0 \o <<"reframe">>

\* the positions of the frames of the traceback that are not framework frames
UserFrames == {i \in 1..Len(tb.frames) : ~InFrameworkDir(tb.frames[i].filename)}

Max(S) == CHOOSE x \in S : \A y \in S : y <= x
Min(S) == CHOOSE x \in S : \A y \in S : x <= y

----------------------------------------------------------------------------
(* C1 *)

\* C1: rendering a taxonomy error returns its message ('' without one) when
\* it has no cause, and that text followed by ': ' and the rendering of the
\* cause otherwise, to any depth: a chain of three errors with messages
\* renders as msg1: msg2: msg3.
C1_RenderChain ==
  (Done("str") /\ IsTaxonomy(exc_value) /\ ~CauseLoop) =>
     /\ Returned
     /\ result.value = Rendering
     /\ heap[exc_value].cause = 0 => result.value = OwnText(exc_value)
     /\ (Len(heap) = 3 /\ \A i \in 1..3 : IsTaxonomy(i)) =>
           result.value = OwnText(3) \o ": " \o OwnText(2) \o ": " \o OwnText(1)

C1_Witness ==
  /\ Done("str") /\ Len(heap) = 3 /\ ~CauseLoop
  /\ \A i \in 1..3 : IsTaxonomy(i) /\ OwnText(i) # ""
  /\ result = Return("m: m: m")

----------------------------------------------------------------------------
(* C2 *)

\* C2: is_severe returns false for every soft error and every recoverable
\* OS-level condition, with any traceback and with none.
C2_SoftNeverSevere ==
  (Done("is_severe") /\ heap # << >> /\ Kind \in SoftKinds \cup RecoverableKinds) =>
     (Returned /\ result.value = FALSE)

C2_Witness ==
  /\ Done("is_severe") /\ heap # << >>
  /\ Kind = "KeyboardInterrupt"
  /\ ~tb.istraceback
  /\ Returned /\ result.value = FALSE

----------------------------------------------------------------------------
(* C3 *)

\* C3: for a type or value error that is not always soft, is_severe returns
\* false exactly when the traceback has a frame outside the framework, and
\* true when all its frames are framework frames.
C3_TypeValueByFrame ==
  (Done("is_severe") /\ heap # << >> /\ Kind \in TypeValueKinds
     /\ Kind \notin SoftKinds \cup RecoverableKinds) =>
     /\ (Returned /\ result.value = FALSE) <=> (tb.istraceback /\ UserFrames # {})
     /\ (tb.istraceback /\ UserFrames = {}) => (Returned /\ result.value = TRUE)

C3_Witness ==
  /\ Done("is_severe") /\ heap # << >> /\ Kind = "ValueError"
  /\ tb.istraceback /\ Len(tb.frames) = 2 /\ UserFrames = {1}
  /\ Returned /\ result.value = FALSE

----------------------------------------------------------------------------
(* C4 *)

\* C4: is_severe returns true for every error that is neither soft, nor a
\* recoverable OS-level condition, nor a type or value error, whatever is
\* passed as its traceback.
C4_OthersSevere ==
  (Done("is_severe") /\ heap # << >>
     /\ Kind \notin SoftKinds \cup RecoverableKinds \cup TypeValueKinds) =>
     (Returned /\ result.value = TRUE)

----------------------------------------------------------------------------
(* C5 *)

\* C5: on a traceback user_frame returns the innermost frame whose file is
\* outside the framework's reframe directory, and None exactly when there
\* is no such frame.
C5_InnermostUserFrame ==
  (Done("user_frame") /\ tb.istraceback) =>
     /\ Returned
     /\ IF UserFrames = {} THEN result.value = None
        ELSE result.value = Some(tb.frames[Max(UserFrames)])

C5_Witness ==
  /\ Done("user_frame") /\ tb.istraceback
  /\ Len(tb.frames) = 3 /\ UserFrames = {1, 2}
  /\ Returned /\ result.value = Some(tb.frames[2])

----------------------------------------------------------------------------
(* C6 *)

\* the module belongs to the reframe package
InFrameworkNamespace(m) ==
  m # None /\ (m[1] = "reframe" \/ startswith(m[1], "reframe."))

\* the positions on the stack of the frames that run outside the framework
ExternalFrames ==
  {i \in 1..Len(callers) : ~InFrameworkNamespace(callers[i])}

\* C6: the stack level passed to warnings.warn designates the nearest frame
\* of the stack whose module is outside the framework namespace.
C6_WarnsAtExternalCaller ==
  (Done("user_deprecation_warning") /\ ExternalFrames # {}) =>
     warn_frame(callers, result.value) = Min(ExternalFrames)

----------------------------------------------------------------------------
(* C7 *)

SpawnedHeader(e) ==
  "command '" \o e.command \o "' failed with exit code "
  \o ToString(e.exitcode[1]) \o ":"

\* C7, as amended: the message of a SpawnedProcessError is the header line,
\* the line '=== STDOUT ===', the stdout if it is not empty, the line
\* '=== STDERR ===', and the stderr if it is not empty.
C7_SpawnedMessage ==
  \A i \in 1..Len(heap) :
     heap[i].kind = "SpawnedProcessError" =>
        /\ heap[i].message =
             Some(SpawnedHeader(heap[i])
                  \o "\n=== STDOUT ==="
                  \o (IF heap[i].stdout # "" THEN "\n" \o heap[i].stdout ELSE "")
                  \o "\n=== STDERR ==="
                  \o (IF heap[i].stderr # "" THEN "\n" \o heap[i].stderr ELSE ""))
        /\ (heap[i].command = "ls -l" /\ heap[i].stdout = ""
              /\ heap[i].stderr = "not found" /\ heap[i].exitcode = Some(2)) =>
             heap[i].message =
               Some("command 'ls -l' failed with exit code 2:\n=== STDOUT ===\n=== STDERR ===\nnot found")

C7_Witness ==
  /\ heap # << >> /\ heap[1].kind = "SpawnedProcessError"
  /\ heap[1].command = "ls -l" /\ heap[1].stdout = ""
  /\ heap[1].stderr = "not found" /\ heap[1].exitcode = Some(2)

\* C7, as written: the STDOUT section is part of the message only if the
\* stdout is not empty.
C7_StdoutSectionOnlyIfNonEmpty ==
  \A i \in 1..Len(heap) :
     heap[i].kind = "SpawnedProcessError" =>
        heap[i].message =
          Some(SpawnedHeader(heap[i])
               \o (IF heap[i].stdout # "" THEN "\n=== STDOUT ===\n" \o heap[i].stdout ELSE "")
               \o "\n=== STDERR ==="
               \o (IF heap[i].stderr # "" THEN "\n" \o heap[i].stderr ELSE ""))

----------------------------------------------------------------------------
(* C8 *)

\* what takes its last branch: not an interrupt, not an abort, not a type
\* or value error with a frame outside the framework
PlainDescription ==
  /\ Done("what") /\ heap # << >> /\ tb.istraceback
  /\ ~issubclass(Kind, "KeyboardInterrupt")
  /\ ~issubclass(Kind, "AbortTaskError")
  /\ ~(Kind \in TypeValueKinds /\ UserFrames # {})

HasMessage == OwnText(exc_value) # ""

\* C8, as amended: the description is the decamelized kind name, followed
\* by ': ' and the rendering of the error (its message and, for a taxonomy
\* error, its cause chain) when that rendering is not empty.
C8_PlainDescription ==
  (PlainDescription /\ ~CauseLoop) =>
     /\ Returned
     /\ result.value = IF Rendering # ""
                       THEN decamelize(Kind, " ") \o ": " \o Rendering
                       ELSE decamelize(Kind, " ")
     /\ (~HasMessage /\ IsTaxonomy(exc_value) /\ heap[exc_value].cause # 0) =>
           result.value # decamelize(Kind, " ")

C8_Witness ==
  /\ PlainDescription /\ ~CauseLoop
  /\ Kind = "ReframeError" /\ ~HasMessage /\ Len(heap) = 2
  /\ heap[2].cause = 1 /\ OwnText(1) = "m"
  /\ result = Return("reframe error: : m")

\* C8, as written: the kind name is followed by ': ' and the message when
\* the error has a message, and stands alone when it has none, cause or not.
C8_NoSuffixWithoutMessage ==
  (PlainDescription /\ Returned) =>
     IF HasMessage
     THEN startswith(result.value, decamelize(Kind, " ") \o ": " \o OwnText(exc_value))
     ELSE result.value = decamelize(Kind, " ")

----------------------------------------------------------------------------
(* C9 *)

\* str(exc_value) runs on a chain that leads back into itself
RenderingLoop == op = "str" /\ pc = "str" /\ CauseLoop

----------------------------------------------------------------------------
(* C10 *)

\* C10: the description of a KeyboardInterrupt is 'cancelled by user' for
\* every traceback.
C10_CancelledByUser ==
  (Done("what") /\ heap # << >> /\ issubclass(Kind, "KeyboardInterrupt")
     /\ tb.istraceback) =>
     result = Return("cancelled by user")

C10_Witness ==
  /\ Done("what") /\ heap # << >> /\ Kind = "KeyboardInterrupt"
  /\ tb.istraceback /\ Len(tb.frames) \in UserFrames
  /\ result = Return("cancelled by user")

====
